---------------------------- MODULE Spec2Model ----------------------------
(***************************************************************************)
(* Model of the graph-ingestion engine of KG_products:                     *)
(*   src/src/modules/neo4j.py  (class Neo4j, handle_transaction_errors),   *)
(* and of its parsing stage:                                               *)
(*   src/src/modules/parse_specifications.py, split_glued_words.py and     *)
(*   parallel_parse_specifications of src/src/create_main_entities.py.     *)
(*                                                                         *)
(* The graph store is a committed Graph plus a list of transactions; a     *)
(* transaction holds the statements that were run on it, and its view of   *)
(* the graph is the committed graph with those statements applied.  Nodes  *)
(* and relationships are bags (multisets), so that a duplicate node or a   *)
(* duplicate relationship is a state the model can express.                *)
(*                                                                         *)
(* Python values: a str that the code splits or strips is a sequence of    *)
(* one-character strings; other strs are opaque TLA+ strings; None and the *)
(* float NaN are the tokens PyNone and PyNaN.                              *)
(***************************************************************************)
EXTENDS Integers, Sequences, FiniteSets, TLC

VARIABLES
    store,      \* the committed graph of the database
    txs,        \* every transaction begun so far, by id (position)
    selfTx,     \* Neo4j.tx: the attribute self.tx (0 is None), shared by all calls
    pc,         \* per caller: position inside Neo4j.create / the wrapper
    batch,      \* per caller: the DataFrame passed to the call (index into Batches)
    k,          \* per caller: position of the next statement of the call
    localTx,    \* per caller: the variable tx of `with ... as tx` (0: none)
    exc,        \* per caller: the exception in flight
    failedAt,   \* per caller: position of the statement that raised (0: none)
    outcome,    \* per caller: what the last call delivered to its caller
    before,     \* per caller: the committed graph when the call started
    issued,     \* per caller: what the call has asked of the store, and on which tx
    callNo,     \* per caller: the ordinal of its current call
    calls,      \* number of calls started
    commits,    \* the committing calls since the last failing one: <<batch, graph after>>
    specifications_list, \* parsing stage: the list given to parallel_parse_specifications
    max_workers,         \* parsing stage: the size of the thread pool
    status,     \* parsing stage, per list position: state of the submitted call
    outs,       \* parsing stage, per list position: what the normalizer returned so far
    normFailed, \* parsing stage: positions whose call saw the normalizer raise
    results,    \* parsing stage: the list being built from the result iterator
    stage,      \* parsing stage: position of the caller of parallel_parse_specifications
    base,       \* product upsert: the graph the open transaction started from
    products,   \* product upsert: the list last given to create_products_in_batch
    viaBatch,   \* product upsert: the transaction's graph along the batch path
    viaEach,    \* product upsert: the transaction's graph along the per-product path
    done,       \* product upsert: elements of products the per-product path has upserted
    batchExc,   \* product upsert: the exception create_products_in_batch raised ("": none)
    eachExc     \* product upsert: the exception the last create_product raised ("": none)

\* The state of the ingestion engine and the state of the parsing stage
ingestVars == <<store, txs, selfTx, pc, batch, k, localTx, exc, failedAt, outcome,
                before, issued, callNo, calls, commits>>

parseVars == <<specifications_list, max_workers, status, outs, normFailed, results, stage>>

batchVars == <<base, products, viaBatch, viaEach, done, batchExc, eachExc>>

vars == <<ingestVars, parseVars, batchVars>>

-----------------------------------------------------------------------------
(* Bounds of the model *)

MaxCalls == 3

\* The largest pool size given to parallel_parse_specifications
MaxWorkers == 2

\* The longest list given to parallel_parse_specifications
MaxList == 3

\* The longest list given to create_products_in_batch
MaxProducts == 3

Threads == {1, 2}

-----------------------------------------------------------------------------
(* Python values *)

PyNone == "<None>"
PyNaN == "<NaN>"

\* bool(x) of a str, None or float('nan'): only None and '' are falsy
Truthy(x) == x \notin {PyNone, ""}

\* `x or ''`  (neo4j.py:75-76)
OrEmpty(x) == IF Truthy(x) THEN x ELSE ""

\* A str that is split: [kind |-> "str", s |-> characters]; None and NaN have no characters
Str(chars) == [kind |-> "str", s |-> chars]
NoneVal == [kind |-> "None", s |-> <<>>]
NaNVal == [kind |-> "NaN", s |-> <<>>]

\* `not categories` is False for a non-empty str and for NaN
TruthyVal(v) == \/ v.kind = "NaN"
                \/ v.kind = "str" /\ v.s # <<>>

\* str.split(sep) for a one-character separator
RECURSIVE Split(_, _)
Split(s, sep) ==
    IF \A i \in 1..Len(s) : s[i] # sep
    THEN <<s>>
    ELSE LET i == CHOOSE j \in 1..Len(s) :
                      s[j] = sep /\ \A h \in 1..(j - 1) : s[h] # sep
         IN  <<SubSeq(s, 1, i - 1)>> \o Split(SubSeq(s, i + 1, Len(s)), sep)

\* The characters str.strip() removes (str.isspace): space, \t, \n, \r, \f, then
\* U+000B, U+001C..U+001F, U+0085, U+00A0 and U+1680 written as they are.  The
\* other sixteen cannot be written in a string of this module; each of them is the
\* character named by its code point, as "U+2003" (a str of the program never holds
\* such a name as one character).
Whitespace ==
    {" ", "\t", "\n", "\r", "\f", "", "", "", "", "", "", " ",
     " ",
     "U+2000", "U+2001", "U+2002", "U+2003", "U+2004", "U+2005", "U+2006", "U+2007",
     "U+2008", "U+2009", "U+200A", "U+2028", "U+2029", "U+202F", "U+205F", "U+3000"}

\* str.strip(): leading and trailing whitespace removed
RECURSIVE LStrip(_)
LStrip(s) == IF s # <<>> /\ s[1] \in Whitespace THEN LStrip(Tail(s)) ELSE s

RECURSIVE RStrip(_)
RStrip(s) ==
    IF s # <<>> /\ s[Len(s)] \in Whitespace THEN RStrip(SubSeq(s, 1, Len(s) - 1)) ELSE s

Strip(s) == RStrip(LStrip(s))

\* row.get(column, default)
Get(row, column, default) == IF column \in DOMAIN row THEN row[column] ELSE default

\* f"product_{index}"
ProductId(index) == <<"product_", index>>

-----------------------------------------------------------------------------
(* The DataFrames the calls are given.  A DataFrame is its columns, its    *)
(* index labels and its rows (column -> value).                            *)

Row(name, description, price, category, specs) ==
    ("Product Name" :> name) @@ ("Description" :> description)
        @@ ("Selling Price" :> price) @@ ("Category" :> category)
        @@ ("Parsed Specifications" :> specs)

AllColumns == {"Product Name", "Description", "Selling Price", "Category",
               "Parsed Specifications"}

Frame(columns, index, rows) ==
    [columns |-> columns, index |-> index,
     rows |-> [i \in DOMAIN rows |-> [c \in columns |-> rows[i][c]]]]

Batches ==
    << \* 1: one record whose category list names A twice
       Frame(AllColumns, <<0>>,
             << Row("n1", "d1", "p1", Str(<<"A", "|", "A">>), << <<"k1", "v1">> >>) >>),
       \* 2: two records; None description, empty price, None category;
       \*    k1 with two values, and (k2, v1) carried by both products
       Frame(AllColumns, <<0, 1>>,
             << Row("n2", PyNone, "", Str(<<"A", "|", " ", "B">>),
                    << <<"k1", "v1">>, <<"k2", "v1">> >>),
                Row("n1", "d1", "p1", NoneVal, << <<"k1", "v2">>, <<"k2", "v1">> >>) >>),
       \* 3: only the required columns; an empty specification mapping
       Frame({"Product Name", "Parsed Specifications"}, <<0>>,
             << Row("n3", "", "", Str(<<>>), << >>) >>),
       \* 4: no 'Product Name' column
       Frame(AllColumns \ {"Product Name"}, <<0>>,
             << Row("n1", "d1", "p1", Str(<<"A">>), << <<"k1", "v1">> >>) >>),
       \* 5: no 'Parsed Specifications' column
       Frame(AllColumns \ {"Parsed Specifications"}, <<0>>,
             << Row("n1", "d1", "p1", Str(<<"A">>), << >>) >>),
       \* 6: NaN description and price; categories that differ in case and whitespace
       Frame(AllColumns, <<0>>,
             << Row("n1", PyNaN, PyNaN, Str(<<"a", "|", " ", "\t", "A", "\n", "U+2003">>),
                    << <<"k1", "v2">> >>) >>),
       \* 7: NaN category in the second record
       Frame(AllColumns, <<0, 1>>,
             << Row("n2", "d2", "p1", Str(<<"B">>), << >>),
                Row("n3", "d1", "p1", NaNVal, << <<"k2", "v1">> >>) >>),
       \* 8: an index that repeats a label
       Frame(AllColumns, <<1, 1>>,
             << Row("n1", "d1", "p1", Str(<<"A">>), << <<"k1", "v1">> >>),
                Row("n2", "d2", "", Str(<<"B">>), << <<"k1", "v1">> >>) >>)
    >>

BatchIds == DOMAIN Batches

-----------------------------------------------------------------------------
(* The graph: bags of nodes and relationships, and the product attributes *)

EmptyBag == [e \in {} |-> 0]

Copies(bag, e) == IF e \in DOMAIN bag THEN bag[e] ELSE 0

\* MERGE of one pattern: created only when no match exists
MergeOne(bag, e) == IF e \in DOMAIN bag THEN bag ELSE bag @@ (e :> 1)

\* CREATE of one pattern: always one more
CreateOne(bag, e) == IF e \in DOMAIN bag THEN [bag EXCEPT ![e] = @ + 1] ELSE bag @@ (e :> 1)

\* A relationship is <<from, to, i, j>>: it goes from the i-th node with key `from`
\* to the j-th node with key `to`.  The pairs of nodes MATCH binds, given how many
\* nodes have each key:
MatchedPairs(from, to, nfrom, nto) ==
    {<<from, to, i, j>> : i \in 1..nfrom, j \in 1..nto}

\* MERGE of a relationship for every matched pair of end nodes: a pair that has no
\* relationship gets one
MergeRel(bag, pairs) == bag @@ [e \in pairs |-> 1]

\* CREATE of a relationship for every matched pair of end nodes: always one more
CreateRel(bag, pairs) ==
    [e \in DOMAIN bag \cup pairs |-> Copies(bag, e) + (IF e \in pairs THEN 1 ELSE 0)]

\* The number of relationships between the nodes with key `from` and those with key `to`
RECURSIVE Total(_, _)
Total(bag, keys) ==
    IF keys = {} THEN 0
    ELSE LET e == CHOOSE x \in keys : TRUE IN bag[e] + Total(bag, keys \ {e})

Between(bag, from, to) == Total(bag, {e \in DOMAIN bag : e[1] = from /\ e[2] = to})

\* SET of the properties of the matched nodes
SetProps(attrs, e, props) ==
    IF e \in DOMAIN attrs THEN [attrs EXCEPT ![e] = props] ELSE attrs @@ (e :> props)

EmptyGraph ==
    [product |-> EmptyBag, attrs |-> EmptyBag, category |-> EmptyBag,
     specification |-> EmptyBag, belongs |-> EmptyBag, hasspec |-> EmptyBag]

\* Bug variant: CREATE instead of MERGE for the Product node
create_product_Create(g, product_id, name, description, price) ==
    [g EXCEPT !.product = CreateOne(@, product_id),
              !.attrs = SetProps(@, product_id,
                          [name |-> name, description |-> description, price |-> price])]

\* Bug variant: the Product is deleted with its relationships and created anew
create_product_Replace(g, product_id, name, description, price) ==
    [g EXCEPT !.product = MergeOne(@, product_id),
              !.attrs = SetProps(@, product_id,
                          [name |-> name, description |-> description, price |-> price]),
              !.belongs = [e \in {x \in DOMAIN @ : x[1] # product_id} |-> @[e]],
              !.hasspec = [e \in {x \in DOMAIN @ : x[1] # product_id} |-> @[e]]]

\* MERGE (p:Product {id: $product_id}) SET p.name = .., p.description = .., p.price = ..
create_product(g, product_id, name, description, price) ==
    [g EXCEPT !.product = MergeOne(@, product_id),
              !.attrs = SetProps(@, product_id,
                          [name |-> name, description |-> description, price |-> price])]

\* MERGE (c:Category {name: $name})
create_category(g, category_name) ==
    [g EXCEPT !.category = MergeOne(@, category_name)]

\* Bug variant: CREATE instead of MERGE for the relationship
create_product_category_relationship_Create(g, product_id, category_name) ==
    [g EXCEPT !.belongs =
        CreateRel(@, MatchedPairs(product_id, category_name, Copies(g.product, product_id),
                                  Copies(g.category, category_name)))]

\* MATCH (p:Product {id: ..}), (c:Category {name: ..}) MERGE (p)-[:BELONGS_TO]->(c)
create_product_category_relationship(g, product_id, category_name) ==
    [g EXCEPT !.belongs =
        MergeRel(@, MatchedPairs(product_id, category_name, Copies(g.product, product_id),
                                 Copies(g.category, category_name)))]

\* Bug variant: the node is merged on its key alone and its value overwritten
create_specification_ByKey(g, spec_key, spec_value) ==
    LET same == {e \in DOMAIN g.specification : e[1] = spec_key}
        kept == [e \in DOMAIN g.specification \ same |-> g.specification[e]]
    IN  [g EXCEPT !.specification = kept @@ (<<spec_key, spec_value>> :> 1)]

\* MERGE (s:Specification {key: $key, value: $value})
create_specification(g, spec_key, spec_value) ==
    [g EXCEPT !.specification = MergeOne(@, <<spec_key, spec_value>>)]

\* MATCH (p:Product {id: ..}), (s:Specification {key: .., value: ..})
\* MERGE (p)-[:HAS_SPECIFICATION]->(s)
create_product_specification_relationship(g, product_id, spec_key, spec_value) ==
    [g EXCEPT !.hasspec =
        MergeRel(@, MatchedPairs(product_id, <<spec_key, spec_value>>,
                                 Copies(g.product, product_id),
                                 Copies(g.specification, <<spec_key, spec_value>>)))]

-----------------------------------------------------------------------------
(* The statements a call issues, in order.  Each carries the position of   *)
(* the record it was issued for.                                           *)

\* A variant that takes each name of the list as it is written
CategoryName_AsGiven(cat) == cat

\* `cat.strip() for cat in categories.split('|')`: the name of a Category node is the
\* text between the pipes without its leading and trailing whitespace
CategoryName(cat) == Strip(cat)

\* Bug variant: the relationship is issued before its Category node
process_categories_EdgeFirst(row, product_id, categories) ==
    IF ~TruthyVal(categories) THEN <<>>
    ELSE IF categories.kind # "str"
    THEN << [op |-> "raise", row |-> row, exc |-> "AttributeError"] >>
    ELSE LET cats == Split(categories.s, "|")
             RECURSIVE Each(_)
             Each(i) ==
                 IF i > Len(cats) THEN <<>>
                 ELSE << [op |-> "belongs", row |-> row, pid |-> product_id,
                          cname |-> CategoryName(cats[i])],
                         [op |-> "category", row |-> row, cname |-> CategoryName(cats[i])] >>
                      \o Each(i + 1)
         IN  Each(1)

\* Neo4j._process_categories
process_categories(row, product_id, categories) ==
    IF ~TruthyVal(categories) THEN <<>>
    ELSE IF categories.kind # "str"
    THEN << [op |-> "raise", row |-> row, exc |-> "AttributeError"] >>
    ELSE LET cats == Split(categories.s, "|")
             RECURSIVE Each(_)
             Each(i) ==
                 IF i > Len(cats) THEN <<>>
                 ELSE << [op |-> "category", row |-> row, cname |-> CategoryName(cats[i])],
                         [op |-> "belongs", row |-> row, pid |-> product_id,
                          cname |-> CategoryName(cats[i])] >>
                      \o Each(i + 1)
         IN  Each(1)

\* Neo4j._process_specifications: the items of the dict in insertion order
process_specifications(row, product_id, specs) ==
    LET RECURSIVE Each(_)
        Each(i) ==
            IF i > Len(specs) THEN <<>>
            ELSE << [op |-> "spec", row |-> row, key |-> specs[i][1], value |-> specs[i][2]],
                    [op |-> "hasspec", row |-> row, pid |-> product_id,
                     key |-> specs[i][1], value |-> specs[i][2]] >>
                 \o Each(i + 1)
    IN  Each(1)

\* The body of the loop of Neo4j.create for the record at position i
RowStatements(df, i) ==
    LET row == df.rows[i]
        product_id == ProductId(df.index[i])
        name == row["Product Name"]
        description == OrEmpty(Get(row, "Description", ""))
        price == OrEmpty(Get(row, "Selling Price", ""))
    IN  << [op |-> "product", row |-> i, pid |-> product_id, name |-> name,
            description |-> description, price |-> price] >>
        \o process_categories(i, product_id, Get(row, "Category", Str(<<>>)))
        \o process_specifications(i, product_id, Get(row, "Parsed Specifications", <<>>))

\* for index, row in data.iterrows(): ...
RECURSIVE StatementsFrom(_, _)
StatementsFrom(df, i) ==
    IF i > Len(df.rows) THEN <<>> ELSE RowStatements(df, i) \o StatementsFrom(df, i + 1)

Statements(b) == StatementsFrom(Batches[b], 1)

\* The effect of tx.run(statement) on the graph the transaction sees
Apply(g, s) ==
    CASE s.op = "product" -> create_product(g, s.pid, s.name, s.description, s.price)
      [] s.op = "category" -> create_category(g, s.cname)
      [] s.op = "belongs" -> create_product_category_relationship(g, s.pid, s.cname)
      [] s.op = "spec" -> create_specification(g, s.key, s.value)
      [] s.op = "hasspec" ->
            create_product_specification_relationship(g, s.pid, s.key, s.value)

RECURSIVE ApplyAll(_, _)
ApplyAll(g, ss) == IF ss = <<>> THEN g ELSE ApplyAll(Apply(g, Head(ss)), Tail(ss))

\* Neo4j.validate_data: the first required column that is missing, or "" if none
validate_data(df) ==
    IF "Product Name" \notin df.columns THEN "Product Name"
    ELSE IF "Parsed Specifications" \notin df.columns THEN "Parsed Specifications"
    ELSE ""

-----------------------------------------------------------------------------
(* The store client: transactions *)

\* What a transaction sees: the committed graph with its own statements applied
View(id) == ApplyAll(store, txs[id].stmts)

IsOpen(id) == txs[id].state = "open"

\* tx.rollback(): the transaction ends and what was run on it is discarded
Rollback(tx) == [tx EXCEPT !.state = "rolledback", !.stmts = <<>>]

NoOutcome == [kind |-> "none", type |-> "", context |-> "", index |-> 0]

\* The value a call delivers when it returns normally
Returned == [kind |-> "returned", type |-> "", context |-> "", index |-> 0]

\* An exception delivered to the caller: its type and the exception it was raised
\* while handling (__context__).  Nothing in create or in the wrapper attaches the
\* position of a record to it, so index is 0 (no record).
Raised(type, context) == [kind |-> "raised", type |-> type, context |-> context, index |-> 0]

\* The database the object is connected to: empty, or holding an earlier ingestion
SeedGraph ==
    ApplyAll(EmptyGraph,
             << [op |-> "product", row |-> 1, pid |-> ProductId(0), name |-> "n0",
                 description |-> "d0", price |-> "p0"],
                [op |-> "category", row |-> 1, cname |-> <<"A">>],
                [op |-> "belongs", row |-> 1, pid |-> ProductId(0), cname |-> <<"A">>],
                [op |-> "spec", row |-> 1, key |-> "k1", value |-> "v2"],
                [op |-> "hasspec", row |-> 1, pid |-> ProductId(0), key |-> "k1",
                 value |-> "v2"] >>)

InitialGraphs == {EmptyGraph, SeedGraph}

\* No caller is inside create
CallersIdle ==
    /\ pc = [t \in Threads |-> "idle"]
    /\ batch = [t \in Threads |-> 1]
    /\ k = [t \in Threads |-> 1]
    /\ localTx = [t \in Threads |-> 0]
    /\ exc = [t \in Threads |-> ""]
    /\ failedAt = [t \in Threads |-> 0]
    /\ outcome = [t \in Threads |-> NoOutcome]
    /\ before = [t \in Threads |-> store]
    /\ issued = [t \in Threads |-> <<>>]
    /\ callNo = [t \in Threads |-> 0]
    /\ calls = 0
    /\ commits = <<>>

\* No call of create has been made on the object: __init__ has set self.tx = None
IngestIdle ==
    /\ txs = <<>>
    /\ selfTx = 0
    /\ CallersIdle

\* No list is being parsed
ParseIdle ==
    /\ specifications_list = <<>>
    /\ max_workers = 1
    /\ status = <<>>
    /\ outs = <<>>
    /\ normFailed = {}
    /\ results = <<>>
    /\ stage = "idle"

\* No list of products is being upserted
BatchIdle ==
    /\ base = EmptyGraph
    /\ products = <<>>
    /\ viaBatch = EmptyGraph
    /\ viaEach = EmptyGraph
    /\ done = 0
    /\ batchExc = ""
    /\ eachExc = ""

Init ==
    /\ store \in InitialGraphs
    /\ IngestIdle
    /\ ParseIdle
    /\ BatchIdle

-----------------------------------------------------------------------------
(* Neo4j.create under handle_transaction_errors, one step at a time *)

\* The caller calls neo4j.create(data)
Call(t, b) ==
    /\ pc[t] = "idle"
    /\ calls < MaxCalls
    /\ calls' = calls + 1
    /\ callNo' = [callNo EXCEPT ![t] = calls + 1]
    /\ pc' = [pc EXCEPT ![t] = "validate"]
    /\ batch' = [batch EXCEPT ![t] = b]
    /\ k' = [k EXCEPT ![t] = 1]
    /\ localTx' = [localTx EXCEPT ![t] = 0]
    /\ exc' = [exc EXCEPT ![t] = ""]
    /\ failedAt' = [failedAt EXCEPT ![t] = 0]
    /\ outcome' = [outcome EXCEPT ![t] = NoOutcome]
    /\ before' = [before EXCEPT ![t] = store]
    /\ issued' = [issued EXCEPT ![t] = <<>>]
    /\ UNCHANGED <<store, txs, selfTx, commits>>
    /\ UNCHANGED parseVars
    /\ UNCHANGED batchVars

\* self.validate_data(data)
Validate(t) ==
    /\ pc[t] = "validate"
    /\ IF validate_data(Batches[batch[t]]) = ""
       THEN /\ pc' = [pc EXCEPT ![t] = "begin"]
            /\ exc' = exc
       ELSE /\ pc' = [pc EXCEPT ![t] = "handler"]
            /\ exc' = [exc EXCEPT ![t] = "ValueError"]
    /\ UNCHANGED <<store, txs, selfTx, batch, k, localTx, failedAt, outcome, before,
                   issued, callNo, calls, commits>>
    /\ UNCHANGED parseVars
    /\ UNCHANGED batchVars

\* with self.driver.session() as session: with session.begin_transaction() as tx:
\* the store opens a transaction, which only the local name tx refers to
Begin(t) ==
    /\ pc[t] = "begin"
    /\ txs' = Append(txs, [state |-> "open", owner |-> t, call |-> callNo[t], stmts |-> <<>>])
    /\ localTx' = [localTx EXCEPT ![t] = Len(txs) + 1]
    /\ pc' = [pc EXCEPT ![t] = "assign"]
    /\ UNCHANGED <<store, selfTx, batch, k, exc, failedAt, outcome, before, issued, callNo,
                   calls, commits>>
    /\ UNCHANGED parseVars
    /\ UNCHANGED batchVars

\* self.tx = tx
Assign(t) ==
    /\ pc[t] = "assign"
    /\ selfTx' = localTx[t]
    /\ pc' = [pc EXCEPT ![t] = "loop"]
    /\ UNCHANGED <<store, txs, batch, k, localTx, exc, failedAt, outcome, before, issued,
                   callNo, calls, commits>>
    /\ UNCHANGED parseVars
    /\ UNCHANGED batchVars

\* The next statement of the loop: self.tx.run(...) succeeds, or the code raises
\* before reaching the store, or the transaction self.tx names is already closed
Run(t) ==
    /\ pc[t] = "loop"
    /\ k[t] <= Len(Statements(batch[t]))
    /\ LET s == Statements(batch[t])[k[t]] IN
       IF s.op = "raise"
       THEN /\ exc' = [exc EXCEPT ![t] = s.exc]
            /\ failedAt' = [failedAt EXCEPT ![t] = k[t]]
            /\ pc' = [pc EXCEPT ![t] = "exit_exc"]
            /\ UNCHANGED <<txs, k, issued>>
       ELSE IF ~IsOpen(selfTx)
       THEN /\ exc' = [exc EXCEPT ![t] = "TransactionError"]
            /\ failedAt' = [failedAt EXCEPT ![t] = k[t]]
            /\ pc' = [pc EXCEPT ![t] = "exit_exc"]
            /\ issued' = [issued EXCEPT ![t] = Append(@, [stmt |-> s, tx |-> selfTx])]
            /\ UNCHANGED <<txs, k>>
       ELSE /\ txs' = [txs EXCEPT ![selfTx].stmts = Append(@, s)]
            /\ issued' = [issued EXCEPT ![t] = Append(@, [stmt |-> s, tx |-> selfTx])]
            /\ k' = [k EXCEPT ![t] = @ + 1]
            /\ UNCHANGED <<exc, failedAt, pc>>
    /\ UNCHANGED <<store, selfTx, batch, localTx, outcome, before, callNo, calls, commits>>
    /\ UNCHANGED parseVars
    /\ UNCHANGED batchVars

\* Bug variant: the failure of a statement is swallowed and the loop goes on
Fail_Swallowed(t) ==
    /\ pc[t] = "loop"
    /\ k[t] <= Len(Statements(batch[t]))
    /\ Statements(batch[t])[k[t]].op # "raise"
    /\ IsOpen(selfTx)
    /\ issued' = [issued EXCEPT ![t] =
                    Append(@, [stmt |-> Statements(batch[t])[k[t]], tx |-> selfTx])]
    /\ k' = [k EXCEPT ![t] = @ + 1]
    /\ UNCHANGED <<store, txs, selfTx, pc, batch, localTx, exc, failedAt, outcome, before,
                   callNo, calls, commits>>
    /\ UNCHANGED parseVars
    /\ UNCHANGED batchVars

\* The next statement of the loop fails in the store: self.tx.run(...) raises
Fail(t) ==
    /\ pc[t] = "loop"
    /\ k[t] <= Len(Statements(batch[t]))
    /\ Statements(batch[t])[k[t]].op # "raise"
    /\ IsOpen(selfTx)
    /\ issued' = [issued EXCEPT ![t] =
                    Append(@, [stmt |-> Statements(batch[t])[k[t]], tx |-> selfTx])]
    /\ exc' = [exc EXCEPT ![t] = "StoreError"]
    /\ failedAt' = [failedAt EXCEPT ![t] = k[t]]
    /\ pc' = [pc EXCEPT ![t] = "exit_exc"]
    /\ UNCHANGED <<store, txs, selfTx, batch, k, localTx, outcome, before,
                   callNo, calls, commits>>
    /\ UNCHANGED parseVars
    /\ UNCHANGED batchVars

\* The caller interrupts the call inside the with block of the transaction (before
\* self.tx = tx, in the loop, or just before the commit): KeyboardInterrupt is raised
\* in create
Cancel(t) ==
    /\ pc[t] \in {"assign", "loop"}
    /\ exc' = [exc EXCEPT ![t] = "KeyboardInterrupt"]
    /\ pc' = [pc EXCEPT ![t] = "exit_exc"]
    /\ UNCHANGED <<store, txs, selfTx, batch, k, localTx, failedAt, outcome, before,
                   issued, callNo, calls, commits>>
    /\ UNCHANGED parseVars
    /\ UNCHANGED batchVars

\* self.tx.commit() after the loop
Commit(t) ==
    /\ pc[t] = "loop"
    /\ k[t] > Len(Statements(batch[t]))
    /\ issued' = [issued EXCEPT ![t] = Append(@, [stmt |-> [op |-> "commit"], tx |-> selfTx])]
    /\ IF IsOpen(selfTx)
       THEN /\ store' = View(selfTx)
            /\ txs' = [txs EXCEPT ![selfTx].state = "committed"]
            /\ commits' = (IF Len(commits) < 2 THEN commits ELSE Tail(commits))
                            \o << <<batch[t], View(selfTx)>> >>
            /\ pc' = [pc EXCEPT ![t] = "exit_ok"]
            /\ exc' = exc
       ELSE /\ exc' = [exc EXCEPT ![t] = "TransactionError"]
            /\ pc' = [pc EXCEPT ![t] = "exit_exc"]
            /\ UNCHANGED <<store, txs, commits>>
    /\ UNCHANGED <<selfTx, batch, k, localTx, failedAt, outcome, before, callNo, calls>>
    /\ UNCHANGED parseVars
    /\ UNCHANGED batchVars

\* Leaving both with blocks without an exception: the transaction of this call is
\* committed by its context manager unless it is already closed; create returns None
ExitOk(t) ==
    /\ pc[t] = "exit_ok"
    /\ IF IsOpen(localTx[t])
       THEN /\ store' = View(localTx[t])
            /\ txs' = [txs EXCEPT ![localTx[t]].state = "committed"]
       ELSE UNCHANGED <<store, txs>>
    /\ outcome' = [outcome EXCEPT ![t] = Returned]
    /\ pc' = [pc EXCEPT ![t] = "idle"]
    /\ UNCHANGED <<selfTx, batch, k, localTx, exc, failedAt, before, issued, callNo,
                   calls, commits>>
    /\ UNCHANGED parseVars
    /\ UNCHANGED batchVars

\* Bug variant: the context manager commits although an exception is leaving
ExitExc_Commits(t) ==
    /\ pc[t] = "exit_exc"
    /\ IF IsOpen(localTx[t])
       THEN /\ store' = View(localTx[t])
            /\ txs' = [txs EXCEPT ![localTx[t]].state = "committed"]
       ELSE UNCHANGED <<store, txs>>
    /\ pc' = [pc EXCEPT ![t] = "handler"]
    /\ UNCHANGED <<selfTx, batch, k, localTx, exc, failedAt, outcome, before, issued,
                   callNo, calls, commits>>
    /\ UNCHANGED parseVars
    /\ UNCHANGED batchVars

\* A variant without the with block of the transaction: nothing is done on the way out
ExitExc_NoContextManager(t) ==
    /\ pc[t] = "exit_exc"
    /\ pc' = [pc EXCEPT ![t] = "handler"]
    /\ UNCHANGED <<store, txs, selfTx, batch, k, localTx, exc, failedAt, outcome, before,
                   issued, callNo, calls, commits>>
    /\ UNCHANGED parseVars
    /\ UNCHANGED batchVars

\* Leaving both with blocks with an exception: the transaction of this call is
\* rolled back by its context manager unless it is already closed
ExitExc(t) ==
    /\ pc[t] = "exit_exc"
    /\ IF IsOpen(localTx[t])
       THEN txs' = [txs EXCEPT ![localTx[t]] = Rollback(@)]
       ELSE txs' = txs
    /\ pc' = [pc EXCEPT ![t] = "handler"]
    /\ UNCHANGED <<store, selfTx, batch, k, localTx, exc, failedAt, outcome, before,
                   issued, callNo, calls, commits>>
    /\ UNCHANGED parseVars
    /\ UNCHANGED batchVars

\* handle_transaction_errors, except Exception as e: rollback of self.tx when it is
\* set, then logging.error and raise e.  rollback() of a transaction that is already
\* closed raises TransactionError, which leaves the wrapper in place of e.
Handler(t) ==
    /\ pc[t] = "handler"
    /\ exc[t] # "KeyboardInterrupt"
    /\ IF selfTx # 0
       THEN /\ issued' = [issued EXCEPT ![t] =
                            Append(@, [stmt |-> [op |-> "rollback"], tx |-> selfTx])]
            /\ IF IsOpen(selfTx)
               THEN /\ txs' = [txs EXCEPT ![selfTx] = Rollback(@)]
                    /\ outcome' = [outcome EXCEPT ![t] = Raised(exc[t], "")]
               ELSE /\ txs' = txs
                    /\ outcome' = [outcome EXCEPT ![t] = Raised("TransactionError", exc[t])]
       ELSE /\ outcome' = [outcome EXCEPT ![t] = Raised(exc[t], "")]
            /\ UNCHANGED <<txs, issued>>
    /\ commits' = <<>>
    /\ pc' = [pc EXCEPT ![t] = "idle"]
    /\ UNCHANGED <<store, selfTx, batch, k, localTx, exc, failedAt, before, callNo, calls>>
    /\ UNCHANGED parseVars
    /\ UNCHANGED batchVars

\* handle_transaction_errors, except Exception: KeyboardInterrupt is not an Exception,
\* so the wrapper does nothing and the interrupt goes on to the caller
Uncaught(t) ==
    /\ pc[t] = "handler"
    /\ exc[t] = "KeyboardInterrupt"
    /\ outcome' = [outcome EXCEPT ![t] = Raised(exc[t], "")]
    /\ commits' = <<>>
    /\ pc' = [pc EXCEPT ![t] = "idle"]
    /\ UNCHANGED <<store, txs, selfTx, batch, k, localTx, exc, failedAt, before, issued,
                   callNo, calls>>
    /\ UNCHANGED parseVars
    /\ UNCHANGED batchVars

-----------------------------------------------------------------------------
(* The parsing stage: src/src/modules/parse_specifications.py,             *)
(* src/src/modules/split_glued_words.py and parallel_parse_specifications  *)
(* of src/src/create_main_entities.py and src/src/prepare_dataset.py.      *)
(*                                                                         *)
(* split_glued_words asks a language model and returns its reply, so the   *)
(* reply is an input: a call of parse_specifications is modelled by the    *)
(* sequence of replies it has received so far.  A dict is the sequence of  *)
(* its <<key, value>> items in insertion order.                            *)

\* `sub in s` of two strs
Contains(s, sub) ==
    \E i \in 1..(Len(s) - Len(sub) + 1) : SubSeq(s, i, i + Len(sub) - 1) = sub

\* s.startswith(prefix)
StartsWith(s, prefix) ==
    Len(s) >= Len(prefix) /\ SubSeq(s, 1, Len(prefix)) = prefix

\* s.split(sep, 1) of a str that contains sep
SplitFirst(s, sep) ==
    LET i == CHOOSE j \in 1..Len(s) : s[j] = sep /\ \A h \in 1..(j - 1) : s[h] # sep
    IN  <<SubSeq(s, 1, i - 1), SubSeq(s, i + 1, Len(s))>>

\* A variant in which a key already present keeps the value it has
DictSet_KeepFirst(d, key, value) ==
    IF \E i \in 1..Len(d) : d[i][1] = key THEN d ELSE Append(d, <<key, value>>)

\* d[key] = value: a key already present keeps its position, a new key goes last
DictSet(d, key, value) ==
    IF \E i \in 1..Len(d) : d[i][1] = key
    THEN [i \in 1..Len(d) |-> IF d[i][1] = key THEN <<key, value>> ELSE d[i]]
    ELSE Append(d, <<key, value>>)

ASIN == <<"A", "S", "I", "N">>

NoGluedWords == <<"n", "o", " ", "g", "l", "u", "e", "d", " ", "w", "o", "r", "d", "s">>

\* `if ':' in spec` is False: a variant that keeps the fragment with an empty value
NoColon_Kept(spec_dict, spec) == DictSet(spec_dict, Strip(spec), <<>>)

\* `if ':' in spec` is False: nothing is done with the fragment
NoColon(spec_dict, spec) == spec_dict

\* `if spec.startswith('ASIN')`
IsReserved(spec) == StartsWith(spec, ASIN)

\* A variant without the fallback: the reply is stored whatever it says
Fallback_None(reply, token) == reply

\* `if 'no glued words' in new_key: new_key = key.strip()`, and the same for the value
Fallback(reply, token) == IF Contains(reply, NoGluedWords) THEN token ELSE reply

\* The loop of parse_specifications from fragment j on.  replies are the returns of
\* split_glued_words so far, given the tokens it was called with for them; when the next
\* call has no reply yet the loop stands at that call (done is FALSE, token is its
\* argument).
RECURSIVE parse_loop(_, _, _, _, _)
parse_loop(specs, j, spec_dict, replies, given) ==
    IF j > Len(specs)
    THEN [done |-> TRUE, dict |-> spec_dict, calls |-> given, token |-> <<>>, exc |-> ""]
    ELSE LET spec == specs[j] IN
         IF ~Contains(spec, <<":">>)
         THEN parse_loop(specs, j + 1, NoColon(spec_dict, spec), replies, given)
         ELSE IF IsReserved(spec)
         THEN parse_loop(specs, j + 1,
                         DictSet(spec_dict, ASIN, Strip(SplitFirst(spec, ":")[2])),
                         replies, given)
         ELSE LET key == SplitFirst(spec, ":")[1]
                  value == SplitFirst(spec, ":")[2]
                  n == Len(given)
              IN  IF Len(replies) < n + 1
                  THEN [done |-> FALSE, dict |-> spec_dict, calls |-> given,
                        token |-> Strip(key), exc |-> ""]
                  ELSE IF Len(replies) < n + 2
                  THEN [done |-> FALSE, dict |-> spec_dict,
                        calls |-> Append(given, Strip(key)), token |-> Strip(value),
                        exc |-> ""]
                  ELSE parse_loop(specs, j + 1,
                                  DictSet(spec_dict,
                                          Fallback(replies[n + 1], Strip(key)),
                                          Fallback(replies[n + 2], Strip(value))),
                                  replies, given \o <<Strip(key), Strip(value)>>)

\* parse_specifications(spec_str) given the replies of split_glued_words.  A value
\* that is truthy and not a string (NaN) has no split method: AttributeError.
parse_specifications(spec_str, replies) ==
    IF ~TruthyVal(spec_str)
    THEN [done |-> TRUE, dict |-> <<>>, calls |-> <<>>, token |-> <<>>, exc |-> ""]
    ELSE IF spec_str.kind # "str"
    THEN [done |-> TRUE, dict |-> <<>>, calls |-> <<>>, token |-> <<>>,
          exc |-> "AttributeError"]
    ELSE parse_loop(Split(spec_str.s, "|"), 1, <<>>, replies, <<>>)

\* What split_glued_words may return for a token: the token itself, a rewriting of
\* it, or a sentence saying that nothing was glued
Rewritten == <<"x", " ", "y">>
NothingGlued == <<"(">> \o NoGluedWords \o <<")">>
ReplyKinds == {"same", "rewritten", "nothing glued"}
Reply(kind, token) ==
    CASE kind = "same" -> token
      [] kind = "rewritten" -> Rewritten
      [] kind = "nothing glued" -> NothingGlued

\* The lists handed to parallel_parse_specifications: strs and None
\* The spec_str "A:1|BadFragmentNoColon|B:2"
BadFragmentExample ==
    Str(<<"A", ":", "1", "|", "B", "a", "d", "F", "r", "a", "g", "m", "e", "n",
          "t", "N", "o", "C", "o", "l", "o", "n", "|", "B", ":", "2">>)

AllSpecLists ==
    { <<>>,
      << BadFragmentExample >>,
      \* "k:v:w", "ASIN: B07", None
      << Str(<<"k", ":", "v", ":", "w">>),
         Str(<<"A", "S", "I", "N", ":", " ", "B", "0", "7">>),
         NoneVal >>,
      \* " ASIN:B1|ASINX:2"
      << Str(<<" ", "A", "S", "I", "N", ":", "B", "1", "|",
               "A", "S", "I", "N", "X", ":", "2">>) >>,
      \* "K:1|\tK\u3000: 2", ""
      << Str(<<"K", ":", "1", "|", "\t", "K", "U+3000", ":", " ", "2">>), Str(<<>>) >>,
      \* "x|a: b", "ASIN:B07|c:d", "e:f"
      << Str(<<"x", "|", "a", ":", " ", "b">>),
         Str(<<"A", "S", "I", "N", ":", "B", "0", "7", "|", "c", ":", "d">>),
         Str(<<"e", ":", "f">>) >>,
      \* NaN, "g:h"
      << NaNVal, Str(<<"g", ":", "h">>) >>,
      \* "a:b", None, "", "ASIN:1"
      << Str(<<"a", ":", "b">>), NoneVal, Str(<<>>),
         Str(<<"A", "S", "I", "N", ":", "1">>) >> }

SpecLists == {l \in AllSpecLists : Len(l) <= MaxList}

Tasks == 1..Len(specifications_list)

\* The call of func on the i-th element, as far as it has got
Parsed(i) == parse_specifications(specifications_list[i], outs[i])

\* The calls a thread of the pool is running
Busy == {i \in Tasks : status[i] \in {"running", "hung"}}

\* The calls whose future is running or has ended
Begun == {i \in Tasks : status[i] \notin {"queued", "cancelled"}}

\* The work queue is first in, first out, and a worker marks the future running
\* (set_running_or_notify_cancel) only after it has taken the call from the queue:
\* a queued call is in a thread's hands, its future still pending, once a later call
\* has begun.  For call i to begin, every earlier queued call must be in the hands
\* of another thread.
Held(i) ==
    {j \in Tasks \ {i} : /\ status[j] = "queued"
                         /\ \/ j < i
                            \/ \E h \in Begun : h > j}

\* A variant that takes results as the calls complete
NextFuture_AsCompleted == {i \in Tasks : status[i] = "done"}

\* executor.map: the result iterator yields the futures in the order of submission
NextFuture == {i \in Tasks : i = Len(results) + 1}

ParseInit ==
    /\ store = EmptyGraph
    /\ IngestIdle
    /\ specifications_list \in SpecLists
    /\ max_workers \in 1..MaxWorkers
    /\ status = [i \in 1..Len(specifications_list) |-> "queued"]
    /\ outs = [i \in 1..Len(specifications_list) |-> <<>>]
    /\ normFailed = {}
    /\ results = <<>>
    /\ stage = "map"
    /\ BatchIdle

\* A thread of the pool that has taken call i from the queue marks its future
\* running and runs func up to its first call of split_glued_words (or to its end).
\* The threads that run a call or hold an earlier one are not this thread.
Start(i) ==
    /\ i \in Tasks
    /\ status[i] = "queued"
    /\ Cardinality(Busy \cup Held(i)) < max_workers
    /\ status' = [status EXCEPT ![i] = IF Parsed(i).exc # "" THEN "failed"
                                       ELSE IF Parsed(i).done THEN "done" ELSE "running"]
    /\ UNCHANGED <<specifications_list, max_workers, outs, normFailed, results, stage>>
    /\ UNCHANGED ingestVars
    /\ UNCHANGED batchVars

\* split_glued_words returns: the call goes on to its next call of split_glued_words
\* (or to its end)
NormReturn(i, kind) ==
    /\ i \in Tasks
    /\ status[i] = "running"
    /\ outs' = [outs EXCEPT ![i] = Append(@, Reply(kind, Parsed(i).token))]
    /\ status' = [status EXCEPT ![i] =
                    IF parse_specifications(specifications_list[i], outs'[i]).done
                    THEN "done" ELSE "running"]
    /\ UNCHANGED <<specifications_list, max_workers, normFailed, results, stage>>
    /\ UNCHANGED ingestVars
    /\ UNCHANGED batchVars

\* A variant that catches the failure and goes on with the token as it was
NormRaise_Substitute(i) ==
    /\ i \in Tasks
    /\ status[i] = "running"
    /\ normFailed' = normFailed \cup {i}
    /\ outs' = [outs EXCEPT ![i] = Append(@, Parsed(i).token)]
    /\ status' = [status EXCEPT ![i] =
                    IF parse_specifications(specifications_list[i], outs'[i]).done
                    THEN "done" ELSE "running"]
    /\ UNCHANGED <<specifications_list, max_workers, results, stage>>
    /\ UNCHANGED ingestVars
    /\ UNCHANGED batchVars

\* split_glued_words raises (chain.invoke fails): nothing in split_glued_words or in
\* parse_specifications catches it, so the call ends with the exception
NormRaise(i) ==
    /\ i \in Tasks
    /\ status[i] = "running"
    /\ normFailed' = normFailed \cup {i}
    /\ status' = [status EXCEPT ![i] = "failed"]
    /\ UNCHANGED <<specifications_list, max_workers, outs, results, stage>>
    /\ UNCHANGED ingestVars
    /\ UNCHANGED batchVars

\* chain.invoke never returns: it is called without a timeout, so the thread stays
\* in it
NormHang(i) ==
    /\ i \in Tasks
    /\ status[i] = "running"
    /\ status' = [status EXCEPT ![i] = "hung"]
    /\ UNCHANGED <<specifications_list, max_workers, outs, normFailed, results, stage>>
    /\ UNCHANGED ingestVars
    /\ UNCHANGED batchVars

\* list(...) takes the next result from the iterator: the future's call has ended
\* with a dict
Collect(i) ==
    /\ stage = "map"
    /\ i \in NextFuture
    /\ status[i] = "done"
    /\ results' = Append(results, Parsed(i).dict)
    /\ status' = [status EXCEPT ![i] = "collected"]
    /\ UNCHANGED <<specifications_list, max_workers, outs, normFailed, stage>>
    /\ UNCHANGED ingestVars
    /\ UNCHANGED batchVars

\* list(...) takes the next result from the iterator: the future's call has ended
\* with an exception, which result() raises again; the iterator's finally block
\* starts to cancel the futures it has not yielded
CollectFail(i) ==
    /\ stage = "map"
    /\ i \in NextFuture
    /\ status[i] = "failed"
    /\ stage' = "unwind"
    /\ UNCHANGED <<specifications_list, max_workers, status, outs, normFailed, results>>
    /\ UNCHANGED ingestVars
    /\ UNCHANGED batchVars

\* The iterator's finally block, for future in fs: future.cancel(), one future at a
\* time from the last submitted to the first.  cancel() changes a future only while
\* no thread has taken its call, and the threads of the pool go on taking calls.
CancelFuture(i) ==
    /\ stage = "unwind"
    /\ i \in Tasks
    /\ status[i] = "queued"
    /\ \A j \in (i + 1)..Len(specifications_list) : status[j] # "queued"
    /\ status' = [status EXCEPT ![i] = "cancelled"]
    /\ UNCHANGED <<specifications_list, max_workers, outs, normFailed, results, stage>>
    /\ UNCHANGED ingestVars
    /\ UNCHANGED batchVars

\* The iterator is exhausted: list(...) is complete and the with block is left
Exhausted ==
    /\ stage = "map"
    /\ Len(results) = Len(specifications_list)
    /\ stage' = "shutdown"
    /\ UNCHANGED <<specifications_list, max_workers, status, outs, normFailed, results>>
    /\ UNCHANGED ingestVars
    /\ UNCHANGED batchVars

\* ThreadPoolExecutor.__exit__, reached once the iterator is closed:
\* shutdown(wait=True) returns when no call is left to take and no thread of the
\* pool is busy; then results is returned, or the exception goes on to the caller
Shutdown ==
    /\ stage \in {"shutdown", "unwind"}
    /\ \A i \in Tasks : status[i] # "queued"
    /\ Busy = {}
    /\ stage' = IF stage = "shutdown" THEN "returned" ELSE "raised"
    /\ UNCHANGED <<specifications_list, max_workers, status, outs, normFailed, results>>
    /\ UNCHANGED ingestVars
    /\ UNCHANGED batchVars

-----------------------------------------------------------------------------
(* The batch product upsert: Neo4j.create_products_in_batch, next to the   *)
(* per-product path (Neo4j.create_product for each element in list order). *)
(* Both run their statements on self.tx; the graphs below are what the     *)
(* open transaction sees along each path.                                  *)

\* A product dictionary with the fields id, name, description and price
ProductDict(index, name, description, price) ==
    [id |-> ProductId(index), name |-> name, description |-> description, price |-> price]

ProductDicts ==
    { ProductDict(0, "n1", "d1", "p1"),
      ProductDict(0, "n2", "d2", ""),
      ProductDict(1, "n1", "d1", "p1"),
      ProductDict(1, "n3", PyNone, "p2") }

\* The lists of product dictionaries of up to n elements
RECURSIVE ProductLists(_)
ProductLists(n) ==
    IF n = 0 THEN {<<>>}
    ELSE ProductLists(n - 1)
         \cup {Append(l, d) : l \in {x \in ProductLists(n - 1) : Len(x) = n - 1},
                              d \in ProductDicts}

\* UNWIND $products AS product  MERGE (p:Product {id: product.id}): one row after the
\* other, a row matching the node an earlier row created
RECURSIVE MergeProducts(_, _)
MergeProducts(g, rows) ==
    IF rows = <<>> THEN g
    ELSE MergeProducts([g EXCEPT !.product = MergeOne(@, Head(rows).id)], Tail(rows))

\* SET p.name = product.name, p.description = product.description,
\* p.price = product.price: for each row, on the node(s) the row is bound to
RECURSIVE SetProducts(_, _)
SetProducts(g, rows) ==
    IF rows = <<>> THEN g
    ELSE SetProducts([g EXCEPT !.attrs = SetProps(@, Head(rows).id,
                                           [name |-> Head(rows).name,
                                            description |-> Head(rows).description,
                                            price |-> Head(rows).price])],
                     Tail(rows))

\* A variant that writes the fields only of the products the graph did not hold
\* (ON CREATE SET)
create_products_in_batch_OnCreate(g, rows) ==
    LET IsNew(row) == Copies(g.product, row.id) = 0
    IN  SetProducts(MergeProducts(g, rows), SelectSeq(rows, IsNew))

\* Neo4j.create_products_in_batch(products) on the graph the transaction sees
create_products_in_batch(g, rows) == SetProducts(MergeProducts(g, rows), rows)

\* What self.tx may be when create_products_in_batch or create_product is called
\* from outside create: None as __init__ leaves it, the closed transaction a call of
\* create leaves in it, or an open transaction the caller has put into it
ObjectTxs ==
    { <<>>,
      << [state |-> "committed", owner |-> 0, call |-> 0, stmts |-> <<>>] >>,
      << [state |-> "rolledback", owner |-> 0, call |-> 0, stmts |-> <<>>] >>,
      << [state |-> "open", owner |-> 0, call |-> 0, stmts |-> <<>>] >> }

\* self.tx.run(...): None has no attribute run, and a closed transaction refuses
TxRunExc ==
    IF selfTx = 0 THEN "AttributeError"
    ELSE IF ~IsOpen(selfTx) THEN "TransactionError"
    ELSE ""

BatchInit ==
    /\ store = EmptyGraph
    /\ txs \in ObjectTxs
    /\ selfTx = Len(txs)
    /\ CallersIdle
    /\ ParseIdle
    /\ base \in InitialGraphs
    /\ products = <<>>
    /\ viaBatch = base
    /\ viaEach = base
    /\ done = 0
    /\ batchExc = ""
    /\ eachExc = ""

\* create_products_in_batch(list) on the transaction in self.tx; the same list is
\* handed to the per-product path on a transaction in the same state that sees the
\* same graph
BatchCall(list) ==
    /\ done = Len(products)
    /\ products' = list
    /\ batchExc' = TxRunExc
    /\ viaBatch' = IF TxRunExc = "" THEN create_products_in_batch(viaBatch, list)
                   ELSE viaBatch
    /\ done' = 0
    /\ eachExc' = ""
    /\ UNCHANGED <<base, viaEach>>
    /\ UNCHANGED ingestVars
    /\ UNCHANGED parseVars

\* The per-product path: create_product for the next element of the list
EachCall ==
    /\ done < Len(products)
    /\ eachExc' = TxRunExc
    /\ viaEach' = IF TxRunExc = ""
                  THEN create_product(viaEach, products[done + 1].id,
                                      products[done + 1].name,
                                      products[done + 1].description,
                                      products[done + 1].price)
                  ELSE viaEach
    /\ done' = done + 1
    /\ UNCHANGED <<base, products, viaBatch, batchExc>>
    /\ UNCHANGED ingestVars
    /\ UNCHANGED parseVars

-----------------------------------------------------------------------------
(* Specifications *)

\* Calls made one after the other on one Neo4j object
Next ==
    \E t \in {1} :
        \/ \E b \in BatchIds : Call(t, b)
        \/ Validate(t)
        \/ Begin(t)
        \/ Assign(t)
        \/ Run(t)
        \/ Fail(t)
        \/ Cancel(t)
        \/ Commit(t)
        \/ ExitOk(t)
        \/ ExitExc(t)
        \/ Handler(t)
        \/ Uncaught(t)

Spec == Init /\ [][Next]_vars

\* Two callers share one Neo4j object and call create concurrently
ConcBatchIds == {3, 4}

NextConc ==
    \E t \in Threads :
        \/ \E b \in ConcBatchIds : Call(t, b)
        \/ Validate(t)
        \/ Begin(t)
        \/ Assign(t)
        \/ Run(t)
        \/ Fail(t)
        \/ Cancel(t)
        \/ Commit(t)
        \/ ExitOk(t)
        \/ ExitExc(t)
        \/ Handler(t)
        \/ Uncaught(t)

SpecConc == Init /\ [][NextConc]_vars

\* One call of parallel_parse_specifications with func = parse_specifications
NextParse ==
    \/ \E i \in 1..MaxList :
        \/ Start(i)
        \/ \E kind \in ReplyKinds : NormReturn(i, kind)
        \/ NormRaise(i)
        \/ NormHang(i)
        \/ Collect(i)
        \/ CollectFail(i)
        \/ CancelFuture(i)
    \/ Exhausted
    \/ Shutdown

SpecParse == ParseInit /\ [][NextParse]_vars

\* Lists of products upserted along the batch path and along the per-product path
NextBatch ==
    \/ \E list \in ProductLists(MaxProducts) : BatchCall(list)
    \/ EachCall

SpecBatch == BatchInit /\ [][NextBatch]_vars

-----------------------------------------------------------------------------
(* Properties *)

StoreOps == {"product", "category", "belongs", "spec", "hasspec"}

\* The call of caller t has returned to its caller
Ended(t) == pc[t] = "idle" /\ outcome[t].kind # "none"

\* The call of caller t committed and returned
Succeeded(t) == pc[t] = "idle" /\ outcome[t].kind = "returned"

\* The call of caller t ended because its statement at position failedAt[t] failed
StatementFailed(t) == Ended(t) /\ outcome[t].kind = "raised" /\ failedAt[t] > 0

\* C1: atomicity of Neo4j.create.  When the k-th statement of a call fails, then
\* once the call has returned the committed graph (nodes, relationships, product
\* attributes) is exactly the graph before the call: nothing of statements 1..k-1
\* is visible and statements k+1..n are never applied.
C1_Atomicity ==
    \A t \in Threads :
        StatementFailed(t) =>
            /\ store = before[t]
            /\ localTx[t] # 0 /\ txs[localTx[t]].state = "rolledback"

\* C1 witness: a store failure at a statement that is neither the first nor the
\* last of the batch, in a call that started from a non-empty graph
C1_Witness ==
    \E t \in Threads :
        /\ StatementFailed(t)
        /\ exc[t] = "StoreError"
        /\ failedAt[t] > 1
        /\ failedAt[t] < Len(Statements(batch[t]))
        /\ before[t] # EmptyGraph

\* C2: idempotence.  Two successive committing calls on the same batch leave the
\* graph the first of them left: the same nodes, relationships and attributes.
C2_Idempotent ==
    (Len(commits) = 2 /\ commits[1][1] = commits[2][1]) => commits[1][2] = commits[2][2]

\* C2 witness: the same batch, with categories and specifications, committed twice
C2_Witness ==
    /\ Len(commits) = 2
    /\ commits[1][1] = commits[2][1]
    /\ DOMAIN commits[2][2].belongs # {}
    /\ DOMAIN commits[2][2].hasspec # {}

\* C3 (as claimed): a call on a batch that lacks a required column delivers the
\* validation error (ValueError) to its caller, and in that call no transaction
\* is begun and no statement is run.
C3_ValidationFailFast ==
    \A t \in Threads :
        (Ended(t) /\ validate_data(Batches[batch[t]]) # "") =>
            /\ outcome[t].kind = "raised"
            /\ outcome[t].type = "ValueError"
            /\ localTx[t] = 0
            /\ \A i \in DOMAIN txs : txs[i].call # callNo[t]
            /\ \A j \in DOMAIN issued[t] : issued[t][j].stmt.op \notin StoreOps

\* The state of the state machine of the current call of caller t
Phase(t) ==
    IF callNo[t] = 0 THEN "Idle"
    ELSE IF localTx[t] = 0 THEN "Validating"
    ELSE CASE txs[localTx[t]].state = "open" -> "TransactionOpen"
           [] txs[localTx[t]].state = "committed" -> "Committed"
           [] txs[localTx[t]].state = "rolledback" -> "RolledBack"

PhaseSteps ==
    { <<"Validating", "TransactionOpen">>,
      <<"TransactionOpen", "Committed">>,
      <<"TransactionOpen", "RolledBack">> }

C4_Invariant ==
    /\ \A c \in 1..calls : Cardinality({i \in DOMAIN txs : txs[i].call = c}) <= 1
    /\ \A t \in Threads :
        /\ (Ended(t) /\ localTx[t] # 0) =>
                txs[localTx[t]].state \in {"committed", "rolledback"}
        /\ (localTx[t] # 0 /\ txs[localTx[t]].state = "committed") =>
                /\ failedAt[t] = 0
                /\ txs[localTx[t]].stmts = Statements(batch[t])

C4_Step ==
    \A t \in Threads :
        IF callNo'[t] # callNo[t]
        THEN Phase(t)' = "Validating"
        ELSE Phase(t)' # Phase(t) => <<Phase(t), Phase(t)'>> \in PhaseSteps

\* C4: each call follows Idle -> Validating -> TransactionOpen -> {Committed |
\* RolledBack}.  A call begins at most one transaction; a call that began one has
\* it committed or rolled back when it returns; it is committed only if every
\* statement of the batch succeeded; and the state of a call changes in no other way.
C4_StateMachine == [](C4_Invariant) /\ [][C4_Step]_vars

\* C4 witness: one call has returned committed after another returned rolled back
C4_Witness ==
    /\ \E t \in Threads : Succeeded(t) /\ Phase(t) = "Committed"
    /\ \E i \in DOMAIN txs : txs[i].state = "rolledback"

\* Among what caller t issued before position j, on the same transaction: the
\* Product upsert of the same record, the Category upsert, the Specification upsert
ProductIssuedBefore(t, j) ==
    \E i \in 1..(j - 1) :
        /\ issued[t][i].tx = issued[t][j].tx
        /\ issued[t][i].stmt.op = "product"
        /\ issued[t][i].stmt.pid = issued[t][j].stmt.pid
        /\ issued[t][i].stmt.row = issued[t][j].stmt.row

CategoryIssuedBefore(t, j) ==
    \E i \in 1..(j - 1) :
        /\ issued[t][i].tx = issued[t][j].tx
        /\ issued[t][i].stmt.op = "category"
        /\ issued[t][i].stmt.cname = issued[t][j].stmt.cname

SpecificationIssuedBefore(t, j) ==
    \E i \in 1..(j - 1) :
        /\ issued[t][i].tx = issued[t][j].tx
        /\ issued[t][i].stmt.op = "spec"
        /\ issued[t][i].stmt.key = issued[t][j].stmt.key
        /\ issued[t][i].stmt.value = issued[t][j].stmt.value

NoDangling(g) ==
    /\ \A e \in DOMAIN g.belongs : e[1] \in DOMAIN g.product /\ e[2] \in DOMAIN g.category
    /\ \A e \in DOMAIN g.hasspec :
            e[1] \in DOMAIN g.product /\ e[2] \in DOMAIN g.specification

\* C5: nodes before relationships.  Within a call, a relationship upsert is issued
\* after the Product upsert of its record and after the upsert of its Category
\* (BELONGS_TO) or Specification (HAS_SPECIFICATION) node, in the same transaction;
\* and every relationship of the committed graph has both end nodes.
C5_NodeBeforeEdge ==
    /\ \A t \in Threads : \A j \in DOMAIN issued[t] :
        /\ issued[t][j].stmt.op \in {"belongs", "hasspec"} => ProductIssuedBefore(t, j)
        /\ issued[t][j].stmt.op = "belongs" => CategoryIssuedBefore(t, j)
        /\ issued[t][j].stmt.op = "hasspec" => SpecificationIssuedBefore(t, j)
    /\ NoDangling(store)

\* C5 witness: a committed call that issued both kinds of relationship
C5_Witness ==
    \E t \in Threads :
        /\ Succeeded(t)
        /\ \E j \in DOMAIN issued[t] : issued[t][j].stmt.op = "belongs"
        /\ \E j \in DOMAIN issued[t] : issued[t][j].stmt.op = "hasspec"
        /\ DOMAIN store.belongs # {} /\ DOMAIN store.hasspec # {}

\* The relationships of a graph are unique per pair of end nodes
UniqueRelationships(g) ==
    /\ \A e \in DOMAIN g.belongs : Between(g.belongs, e[1], e[2]) = 1
    /\ \A e \in DOMAIN g.hasspec : Between(g.hasspec, e[1], e[2]) = 1

\* The categories the record at position i of a DataFrame names more than once
RepeatedCategories(df, i) ==
    LET c == Get(df.rows[i], "Category", Str(<<>>))
        cats == IF c.kind = "str" /\ c.s # <<>> THEN Split(c.s, "|") ELSE <<>>
    IN  {Strip(cats[x]) : x \in {x \in DOMAIN cats :
                                    \E y \in DOMAIN cats : y # x /\ Strip(cats[y]) = Strip(cats[x])}}

\* C6: relationship uniqueness.  The committed graph holds at most one BELONGS_TO
\* per (product, category) and at most one HAS_SPECIFICATION per (product,
\* specification); a record that names a category twice gets exactly one
\* BELONGS_TO to it.
C6_UniqueRelationships ==
    /\ UniqueRelationships(store)
    /\ \A t \in Threads : Succeeded(t) =>
          \A i \in DOMAIN Batches[batch[t]].rows :
             \A c \in RepeatedCategories(Batches[batch[t]], i) :
                Between(store.belongs, ProductId(Batches[batch[t]].index[i]), c) = 1

\* C6 witness: a committed call whose record names a category twice
C6_Witness ==
    \E t \in Threads :
        /\ Succeeded(t)
        /\ \E i \in DOMAIN Batches[batch[t]].rows : RepeatedCategories(Batches[batch[t]], i) # {}

\* The nodes of a graph are unique per id, name or (key, value)
UniqueNodes(g) ==
    /\ \A e \in DOMAIN g.product : g.product[e] = 1
    /\ \A e \in DOMAIN g.category : g.category[e] = 1
    /\ \A e \in DOMAIN g.specification : g.specification[e] = 1

\* The (key, value) pairs of the record at position i of a DataFrame
SpecPairs(df, i) ==
    LET sp == df.rows[i]["Parsed Specifications"] IN {sp[x] : x \in DOMAIN sp}

\* C7: node identity.  The committed graph holds at most one Product per id, one
\* Category per name and one Specification per (key, value); after a committed
\* call every (key, value) of every record is one node of its own (so the same
\* key with two values is two nodes) and the record's product is linked to it
\* (so two products with the same pair are linked to the same node).
C7_NodeIdentity ==
    /\ UniqueNodes(store)
    /\ \A t \in Threads : Succeeded(t) =>
          \A i \in DOMAIN Batches[batch[t]].rows :
             \A kv \in SpecPairs(Batches[batch[t]], i) :
                /\ Copies(store.specification, kv) = 1
                /\ Between(store.hasspec, ProductId(Batches[batch[t]].index[i]), kv) = 1

\* C7 witness: a committed batch in which one key has two values and two
\* products carry the same (key, value)
C7_Witness ==
    \E t \in Threads :
        /\ Succeeded(t)
        /\ \E i, j \in DOMAIN Batches[batch[t]].rows :
              /\ Batches[batch[t]].index[i] # Batches[batch[t]].index[j]
              /\ SpecPairs(Batches[batch[t]], i) \cap SpecPairs(Batches[batch[t]], j) # {}
              /\ \E a \in SpecPairs(Batches[batch[t]], i), b \in SpecPairs(Batches[batch[t]], j) :
                    a[1] = b[1] /\ a[2] # b[2]

\* C8 (as claimed): when a statement fails in the store, what the caller is given
\* names the position of the record whose processing failed and carries the
\* underlying cause.
C8_FailureReport ==
    \A t \in Threads :
        (StatementFailed(t) /\ exc[t] = "StoreError") =>
            /\ outcome[t].index = Statements(batch[t])[failedAt[t]].row
            /\ exc[t] \in {outcome[t].type, outcome[t].context}

\* C9 (as claimed): under concurrent calls every statement, commit and rollback
\* of a call is executed on a transaction that this caller opened.
C9_OwnTransaction ==
    \A t \in Threads : \A j \in DOMAIN issued[t] : txs[issued[t][j].tx].owner = t

\* The last record of a DataFrame with the index label of the record at position i
LastWithId(df, i) ==
    CHOOSE j \in DOMAIN df.rows :
        /\ df.index[j] = df.index[i]
        /\ \A h \in DOMAIN df.rows : df.index[h] = df.index[i] => h <= j

\* An absent value: None or the missing-value marker NaN
Absent(x) == x \in {PyNone, PyNaN}

\* C10 (as claimed): after a committed call the Product node of each id of the
\* batch carries exactly the name, description and price of the last record
\* with that id, an absent description or price being the empty string.
C10_LastWriteWins ==
    \A t \in Threads : Succeeded(t) =>
        \A i \in DOMAIN Batches[batch[t]].rows :
            LET df == Batches[batch[t]]
                row == df.rows[LastWithId(df, i)]
                d == Get(row, "Description", PyNone)
                p == Get(row, "Selling Price", PyNone)
            IN  store.attrs[ProductId(df.index[i])] =
                    [name |-> row["Product Name"],
                     description |-> IF Absent(d) THEN "" ELSE d,
                     price |-> IF Absent(p) THEN "" ELSE p]

-----------------------------------------------------------------------------
(* Properties of the parsing stage *)

\* The call of func on the i-th element has ended with a dict
Finished(i) == status[i] \in {"done", "collected"}

\* C11: whatever the order in which the calls of the pool run and complete, the list
\* built by parallel_parse_specifications holds, at each position, the result of the
\* call made on the element at that position, and when it is returned it is as long
\* as the list given.
C11_OrderPreserved ==
    /\ Len(results) <= Len(specifications_list)
    /\ \A i \in 1..Len(results) :
           /\ status[i] = "collected"
           /\ results[i] = parse_specifications(specifications_list[i], outs[i]).dict
    /\ stage = "returned" => Len(results) = Len(specifications_list)

\* A list of three elements with three different results was parsed by a pool of two
C11_Witness ==
    /\ stage = "returned"
    /\ max_workers = 2
    /\ Len(results) = 3
    /\ results[1] # results[2] /\ results[2] # results[3] /\ results[1] # results[3]

-----------------------------------------------------------------------------
(* Properties of the ingestion engine, continued *)

\* The call of t was interrupted by its caller after its transaction was opened
Cancelled(t) == Ended(t) /\ outcome[t].kind = "raised" /\ exc[t] = "KeyboardInterrupt"

\* C12: when the caller interrupts a create call after its transaction was opened and
\* before the commit, the transaction is rolled back, the caller gets the interrupt,
\* and the committed graph is the graph before the call.
C12_CancelRollsBack ==
    \A t \in Threads :
        Cancelled(t) =>
            /\ localTx[t] # 0
            /\ txs[localTx[t]].state = "rolledback"
            /\ txs[localTx[t]].call = callNo[t]
            /\ outcome[t].type = "KeyboardInterrupt"
            /\ store = before[t]

\* A call was interrupted after it had run statements on a populated database
C12_Witness ==
    \E t \in Threads :
        /\ Cancelled(t)
        /\ \E j \in 1..Len(issued[t]) : issued[t][j].stmt.op \in StoreOps
        /\ store = SeedGraph

-----------------------------------------------------------------------------
(* Properties of parse_specifications *)

\* The pipe-delimited fragments of a spec_str that is not empty
Fragments(spec_str) == Split(spec_str.s, "|")

\* The positions of the fragments that hold a colon
ColonFragments(spec_str) ==
    IF TruthyVal(spec_str)
    THEN {j \in 1..Len(Fragments(spec_str)) : \E h \in 1..Len(Fragments(spec_str)[j]) :
                                                  Fragments(spec_str)[j][h] = ":"}
    ELSE {}

Keys(d) == {d[j][1] : j \in 1..Len(d)}

\* C13: a fragment without a colon contributes nothing to the result and the other
\* fragments are still parsed: the result has no key for a dropped fragment and at
\* most one key per fragment with a colon (at least one if there is such a fragment);
\* with a normalizer that returns its argument, "A:1|BadFragmentNoColon|B:2" gives
\* exactly A -> 1 and B -> 2, in that order.
C13_FragmentDropping ==
    \A i \in Tasks :
        Finished(i) =>
            LET spec_str == specifications_list[i]
                d == Parsed(i).dict
            IN  /\ Cardinality(Keys(d)) = Len(d)
                /\ Len(d) <= Cardinality(ColonFragments(spec_str))
                /\ ColonFragments(spec_str) # {} => d # <<>>
                /\ TruthyVal(spec_str) =>
                       \A j \in 1..Len(Fragments(spec_str)) :
                           j \notin ColonFragments(spec_str) =>
                               /\ Fragments(spec_str)[j] \notin Keys(d)
                               /\ Strip(Fragments(spec_str)[j]) \notin Keys(d)
                /\ (spec_str = BadFragmentExample
                      /\ outs[i] = << <<"A">>, <<"1">>, <<"B">>, <<"2">> >>) =>
                       d = << << <<"A">>, <<"1">> >>, << <<"B">>, <<"2">> >> >>

\* "A:1|BadFragmentNoColon|B:2" was parsed with a normalizer that returned its argument
C13_Witness ==
    \E i \in Tasks :
        /\ Finished(i)
        /\ specifications_list[i] = BadFragmentExample
        /\ outs[i] = << <<"A">>, <<"1">>, <<"B">>, <<"2">> >>
        /\ stage = "returned"

\* The key and the value of a fragment that holds a colon, trimmed
TrimmedKey(fragment) == Strip(SplitFirst(fragment, ":")[1])
TrimmedValue(fragment) == Strip(SplitFirst(fragment, ":")[2])

\* C14: a fragment bypasses the normalizer exactly when its trimmed key is ASIN: the
\* normalizer is not called for it and its trimmed value is stored under ASIN; for
\* every other fragment with a colon the normalizer is called on the key and on the
\* value.
C14_ReservedKeyBypass ==
    \A i \in Tasks :
        Finished(i) =>
            LET spec_str == specifications_list[i]
                asked == {Parsed(i).calls[h] : h \in 1..Len(Parsed(i).calls)}
                d == Parsed(i).dict
            IN  \A j \in ColonFragments(spec_str) :
                    LET fragment == Fragments(spec_str)[j] IN
                    IF TrimmedKey(fragment) = ASIN
                    THEN /\ TrimmedValue(fragment) \notin asked
                         /\ (\A h \in ColonFragments(spec_str) :
                                 h > j => TrimmedKey(Fragments(spec_str)[h]) # ASIN)
                                => \E e \in 1..Len(d) :
                                       d[e] = <<ASIN, TrimmedValue(fragment)>>
                    ELSE /\ TrimmedKey(fragment) \in asked
                         /\ TrimmedValue(fragment) \in asked

\* C15: when a call of the normalizer raises, the call of parse_specifications ends
\* with that failure: it does not go on, it has no dict as its result, nothing is put
\* in the results list for it, and parallel_parse_specifications does not return.
C15_NormalizerFailurePropagates ==
    \A i \in Tasks :
        i \in normFailed =>
            /\ status[i] \in {"failed"}
            /\ ~Parsed(i).done
            /\ Len(results) < i
            /\ stage # "returned"

\* The normalizer raised in the second call made for an element, after a first call
\* had returned, and the failure reached the caller of parallel_parse_specifications
C15_Witness ==
    \E i \in Tasks :
        /\ i \in normFailed
        /\ Len(outs[i]) = 1
        /\ stage = "raised"

\* The names written in the category list of the record at position i of a DataFrame
WrittenCategories(df, i) ==
    LET categories == Get(df.rows[i], "Category", Str(<<>>))
    IN  IF categories.kind = "str" /\ categories.s # <<>>
        THEN {Split(categories.s, "|")[j] : j \in 1..Len(Split(categories.s, "|"))}
        ELSE {}

\* C16 as stated: every name written in a category list is the key of a Category
\* node, unchanged, so that names that differ only in case or only in leading or
\* trailing whitespace are distinct nodes.
C16_NameAsGiven ==
    \A t \in Threads :
        Succeeded(t) =>
            \A i \in 1..Len(Batches[batch[t]].rows) :
                \A name \in WrittenCategories(Batches[batch[t]], i) :
                    Copies(store.category, name) = 1

\* C16, amended: the key of the Category node of a written name is the name without
\* its leading and trailing whitespace, its case unchanged: names that differ only in
\* case are distinct nodes, names that differ only in leading or trailing whitespace
\* are one node, and there is no node for a name written with such whitespace.
C16_NameStripped ==
    \A t \in Threads :
        Succeeded(t) =>
            \A i \in 1..Len(Batches[batch[t]].rows) :
                \A name \in WrittenCategories(Batches[batch[t]], i) :
                    /\ Copies(store.category, Strip(name)) = 1
                    /\ name # Strip(name) => Copies(store.category, name) = 0

\* The list "a|\u1680\tA\n\u2003" was ingested: there are the nodes a and A, and none
\* for the name with its whitespace
C16_Witness ==
    \E t \in Threads :
        /\ Succeeded(t)
        /\ <<" ", "\t", "A", "\n", "U+2003">> \in WrittenCategories(Batches[batch[t]], 1)
        /\ <<"a">> \in WrittenCategories(Batches[batch[t]], 1)
        /\ Copies(store.category, <<"a">>) = 1
        /\ Copies(store.category, <<"A">>) = 1
        /\ Copies(store.category, <<" ", "\t", "A", "\n", "U+2003">>) = 0

\* The record at position i of a DataFrame has no category: the column is missing or
\* its value is None, NaN or ''
NoCategory(df, i) ==
    LET categories == Get(df.rows[i], "Category", Str(<<>>))
    IN  categories.kind \in {"None", "NaN"} \/ categories.s = <<>>

\* The statements of the call of t issued for the record at position i
IssuedFor(t, i) ==
    {j \in 1..Len(issued[t]) : issued[t][j].stmt.op \in StoreOps /\ issued[t][j].stmt.row = i}

\* C17: a record without a category and a record with an empty specification mapping
\* are valid.  A call whose DataFrame has the required columns, in which no statement
\* failed in the store and which was not interrupted, returns normally; for a record
\* without a category it has issued the product upsert and the upserts of the
\* record's specifications but no Category and no BELONGS_TO upsert; for a record
\* with an empty mapping it has issued no Specification and no HAS_SPECIFICATION
\* upsert.
C17_EmptyInputsValid ==
    \A t \in Threads :
        (/\ Ended(t)
         /\ validate_data(Batches[batch[t]]) = ""
         /\ exc[t] \notin {"StoreError", "KeyboardInterrupt"}) =>
            LET df == Batches[batch[t]] IN
            /\ outcome[t].kind = "returned"
            /\ \A i \in 1..Len(df.rows) :
                   LET ops == {issued[t][j].stmt.op : j \in IssuedFor(t, i)}
                       specs == Get(df.rows[i], "Parsed Specifications", <<>>)
                   IN  /\ "product" \in ops
                       /\ NoCategory(df, i) => ops \cap {"category", "belongs"} = {}
                       /\ specs # <<>> => {"spec", "hasspec"} \subseteq ops
                       /\ specs = <<>> => ops \cap {"spec", "hasspec"} = {}

\* Every node and every relationship of graph g is in graph h, as many times
Within(g, h) ==
    /\ \A e \in DOMAIN g.product : Copies(h.product, e) >= g.product[e]
    /\ \A e \in DOMAIN g.category : Copies(h.category, e) >= g.category[e]
    /\ \A e \in DOMAIN g.specification : Copies(h.specification, e) >= g.specification[e]
    /\ \A e \in DOMAIN g.belongs : Copies(h.belongs, e) >= g.belongs[e]
    /\ \A e \in DOMAIN g.hasspec : Copies(h.hasspec, e) >= g.hasspec[e]

\* C18: nothing is deleted.  In every step of every sequence of create calls, each
\* node and each relationship of the committed graph is still in the committed graph
\* after the step.
C18_NothingDeleted == [][Within(store, store')]_vars

\* A call committed on a populated database: it added to the graph and overwrote the
\* attributes of a product that was there
C18_Witness ==
    \E t \in Threads :
        /\ Succeeded(t)
        /\ before[t].product # EmptyBag
        /\ before[t].belongs # EmptyBag
        /\ store.attrs[ProductId(0)] # before[t].attrs[ProductId(0)]
        /\ DOMAIN store.category # DOMAIN before[t].category

-----------------------------------------------------------------------------
(* Properties of the parsing stage, continued *)

\* A call of the normalizer has not returned and never will
Hung == \E i \in Tasks : status[i] = "hung"

\* C19: parsing does not hang on the normalizer.  When a call of the normalizer never
\* returns, the parsing stage has ended with a failure or can still take a step
\* towards it: it is never left waiting for that call for ever.
C19_ParsingTerminates == Hung => (stage = "raised" \/ ENABLED NextParse)

\* The positions of the fragments for which the normalizer is called
NormalizedFragments(spec_str) ==
    {j \in ColonFragments(spec_str) : ~IsReserved(Fragments(spec_str)[j])}

\* What the normalizer returned for the key and for the value of fragment j in the
\* call made on element i
KeyReply(i, j) ==
    outs[i][2 * Cardinality({h \in NormalizedFragments(specifications_list[i]) : h <= j}) - 1]
ValueReply(i, j) ==
    outs[i][2 * Cardinality({h \in NormalizedFragments(specifications_list[i]) : h <= j})]

\* The key under which fragment j of element i is to be stored
StoredKey(i, j) ==
    LET fragment == Fragments(specifications_list[i])[j] IN
    IF IsReserved(fragment) THEN ASIN
    ELSE IF Contains(KeyReply(i, j), NoGluedWords) THEN TrimmedKey(fragment)
    ELSE KeyReply(i, j)

\* C20: for every fragment given to the normalizer, the stored key is the trimmed key
\* when the reply for the key contains 'no glued words' and the reply itself
\* otherwise, and the stored value is the trimmed value when the reply for the value
\* contains 'no glued words' and the reply itself otherwise, each decided by its own
\* reply.  (The item is in the result unless a later fragment has the same key.)
C20_SentinelFallback ==
    \A i \in Tasks :
        Finished(i) =>
            \A j \in NormalizedFragments(specifications_list[i]) :
                LET fragment == Fragments(specifications_list[i])[j]
                    d == Parsed(i).dict
                    key == IF Contains(KeyReply(i, j), NoGluedWords)
                           THEN TrimmedKey(fragment) ELSE KeyReply(i, j)
                    value == IF Contains(ValueReply(i, j), NoGluedWords)
                             THEN TrimmedValue(fragment) ELSE ValueReply(i, j)
                IN  (\A h \in ColonFragments(specifications_list[i]) :
                         h > j => StoredKey(i, h) # key)
                        => \E e \in 1..Len(d) : d[e] = <<key, value>>

\* "k:v:w" was parsed with 'no glued words' in the reply for the key only: the key is
\* the trimmed key and the value is the reply
C20_Witness ==
    \E i \in Tasks :
        /\ Finished(i)
        /\ specifications_list[i] = Str(<<"k", ":", "v", ":", "w">>)
        /\ outs[i] = <<NothingGlued, Rewritten>>
        /\ Parsed(i).dict = << << <<"k">>, Rewritten >> >>

\* "k:v:w" was parsed with 'no glued words' in the reply for the value only
C20_WitnessValue ==
    \E i \in Tasks :
        /\ Finished(i)
        /\ specifications_list[i] = Str(<<"k", ":", "v", ":", "w">>)
        /\ outs[i] = <<Rewritten, NothingGlued>>
        /\ Parsed(i).dict = << <<Rewritten, <<"v", ":", "w">> >> >>

\* The value with which fragment j of element i is to be stored
StoredValue(i, j) ==
    LET fragment == Fragments(specifications_list[i])[j] IN
    IF IsReserved(fragment) THEN TrimmedValue(fragment)
    ELSE IF Contains(ValueReply(i, j), NoGluedWords) THEN TrimmedValue(fragment)
    ELSE ValueReply(i, j)

\* C21: duplicate keys are last-write-wins.  When two fragments of one spec_str are
\* stored under the same key (after the normalizer, after the fallback, or as ASIN),
\* the result has exactly one item with that key, and its value is the value of the
\* last fragment stored under that key.
C21_LastWriteWins ==
    \A i \in Tasks :
        Finished(i) =>
            LET d == Parsed(i).dict
                stored == ColonFragments(specifications_list[i])
            IN  \A j \in stored : \A h \in stored :
                    (/\ j < h
                     /\ StoredKey(i, j) = StoredKey(i, h)
                     /\ \A g \in stored : g > h => StoredKey(i, g) # StoredKey(i, h)) =>
                        /\ Cardinality({e \in 1..Len(d) : d[e][1] = StoredKey(i, h)}) = 1
                        /\ \E e \in 1..Len(d) : d[e] = <<StoredKey(i, h), StoredValue(i, h)>>

\* "K:1|\tK\u3000: 2" was parsed with a normalizer that returned its argument: the one item
\* is K -> 2
C21_Witness ==
    \E i \in Tasks :
        /\ Finished(i)
        /\ specifications_list[i] = Str(<<"K", ":", "1", "|", "\t", "K", "U+3000", ":", " ", "2">>)
        /\ outs[i] = << <<"K">>, <<"1">>, <<"K">>, <<"2">> >>
        /\ Parsed(i).dict = << << <<"K">>, <<"2">> >> >>

\* " ASIN:B1|ASINX:2" was parsed with a normalizer that returned its argument: the
\* item stored for the first fragment under ASIN was overwritten by the second
C21_WitnessASIN ==
    \E i \in Tasks :
        /\ Finished(i)
        /\ outs[i] = << ASIN, <<"B", "1">> >>
        /\ Parsed(i).dict = << <<ASIN, <<"2">> >> >>

-----------------------------------------------------------------------------
(* Properties of the batch product upsert *)

\* C22: the batch product upsert is equivalent to the per-product path.  Once the
\* per-product path has called create_product for every element of the list given to
\* create_products_in_batch, in list order, both graphs hold the same Product nodes
\* with the same attributes (when self.tx is an open transaction, so that the
\* statements run: for a repeated id, those of its last element; when it is None or
\* closed: those the graph had), and the batch path has left the Category nodes, the
\* Specification nodes and the relationships as they were.
C22_BatchEquivalent ==
    /\ done = Len(products) =>
           /\ viaBatch.product = viaEach.product
           /\ viaBatch.attrs = viaEach.attrs
           /\ \A j \in 1..Len(products) :
                  (/\ batchExc = ""
                   /\ \A h \in (j + 1)..Len(products) : products[h].id # products[j].id) =>
                      /\ Copies(viaBatch.product, products[j].id) >= 1
                      /\ viaBatch.attrs[products[j].id] =
                             [name |-> products[j].name,
                              description |-> products[j].description,
                              price |-> products[j].price]
    /\ viaBatch.category = base.category
    /\ viaBatch.specification = base.specification
    /\ viaBatch.belongs = base.belongs
    /\ viaBatch.hasspec = base.hasspec

\* A list that repeats the id of a product the graph already held, with different
\* fields, was upserted along both paths on a populated graph
C22_Witness ==
    /\ done = Len(products)
    /\ Len(products) = 3
    /\ products[1].id = ProductId(0)
    /\ products[3].id = ProductId(0)
    /\ products[1].name # products[3].name
    /\ products[2].id = ProductId(1)
    /\ base = SeedGraph
    /\ batchExc = ""
    /\ eachExc = ""
    /\ viaBatch.attrs[ProductId(0)].name = products[3].name

-----------------------------------------------------------------------------
(* Properties of the ingestion engine: the ends of a transaction *)

\* The step makes caller t ask for the commit or the rollback of a transaction
EndsTransaction(t) ==
    /\ Len(issued'[t]) = Len(issued[t]) + 1
    /\ issued'[t][Len(issued'[t])].stmt.op \in {"rollback", "commit"}

\* Every call that has ended has left its transaction, if it began one, ended
NoneLeftOpen ==
    \A t \in Threads :
        (Ended(t) /\ localTx[t] # 0 /\ txs[localTx[t]].call = callNo[t]) =>
            ~IsOpen(localTx[t])

\* C23: across any sequence of create calls on one object, rollback and commit are
\* only ever asked of a transaction that is still open, and a call leaves no
\* transaction open: each transaction is ended exactly once.
C23_EndedOnce ==
    /\ []NoneLeftOpen
    /\ [][\A t \in Threads :
              EndsTransaction(t) => IsOpen(issued'[t][Len(issued'[t])].tx)]_vars

=============================================================================
